---- MODULE Spec2Model ----
(***************************************************************************)
(* A model of py2pyd/convert.py: module discovery, toolchain detection,    *)
(* MSVC environment activation, the build orchestration of convert() and   *)
(* _build_extensions(), the collection of artifacts, the two cleaners and  *)
(* the command-line entry point _cli().                                    *)
(*                                                                         *)
(* Text is modelled by its dot structure.  A path segment (one file or     *)
(* directory name) is the sequence of its dot-separated pieces, so the     *)
(* file name "a.b.py" is <<"a","b","py">>.  A path is a sequence of        *)
(* segments.  A dotted module name is the sequence of its dot-separated    *)
(* pieces: joining parts with "." concatenates their pieces, which is what *)
(* makes "a.b" + "py" and "a" + "b.py" different paths but the same name.  *)
(***************************************************************************)
EXTENDS Naturals, Sequences, FiniteSets, TLC

VARIABLES
    host,       \* facts of the machine: platform, interpreter width, VS install, gcc probe
    args,       \* arguments of the call: input path, use_mingw, cleanup, temp dir
    srcTree,    \* files below the input directory (relative paths)
    order,      \* the order in which rglob yields the files of srcTree
    environ,    \* os.environ, the process-wide environment table
    dirs,       \* which of the output and build-temp directories exist
    tmpFiles,   \* scratch files present in the temp directory
    outFiles,   \* artifact paths present below the output directory
    pc,         \* position of the running call
    error,      \* the error the call raised, "none" if none
    modules,    \* result of _discover_modules
    built,      \* result list of _build_extensions
    calls,      \* how often each external step or helper has been invoked
    vs,         \* what the last _setup_vs_environment call saw and returned
    compat,     \* what the last _windows_gcc_compatibility call returned
    message,    \* what the raised error's message names
    ext_modules,\* the compile units handed to the code generator
    buildTemp,  \* files present in the build-temp directory
    diagnosis,  \* result of the last _diagnose_vs_build_tools call
    cli         \* the command-line entry point: its arguments and its exit

vars == <<host, args, srcTree, order, environ, dirs, tmpFiles, outFiles, pc, error,
          modules, built, calls, vs, compat, message, ext_modules, buildTemp,
          diagnosis, cli>>

(***************************************************************************)
(* Bounds of the model.                                                    *)
(***************************************************************************)
\* the largest number of files in a source tree handed to discovery
MaxFiles == 3

(***************************************************************************)
(* Paths and names.                                                        *)
(***************************************************************************)
Last(s) == s[Len(s)]

Front(s) == SubSeq(s, 1, Len(s) - 1)

RECURSIVE Flatten(_)
Flatten(ss) == IF ss = <<>> THEN <<>> ELSE Head(ss) \o Flatten(Tail(ss))

\* PurePath.suffix: the last dot-separated piece of the final segment, if the
\* segment has a dot that is not its first character
HasSuffix(p, ext) == Len(Last(p)) >= 2 /\ Last(Last(p)) = ext

\* PurePath.with_suffix(""): the final segment loses its last suffix
WithSuffixStripped(p) ==
    IF Len(Last(p)) >= 2 THEN Front(p) \o <<Front(Last(p))>> ELSE p

\* PurePath.stem of a one-segment path
Stem(p) == Last(WithSuffixStripped(p))

\* PurePath.relative_to(base) for a path below base
RelativeTo(p, base) == SubSeq(p, Len(base) + 1, Len(p))

\* ".".join(parts)
JoinDots(parts) == Flatten(parts)

\* the working directory, against which Path.resolve() makes a path absolute
Cwd == << <<"work">> >>

Resolve(p) == Cwd \o p

\* Path.rglob("*.py") below base, in the order the directory walk yields
Rglob(base, tree, ord, ext) ==
    SelectSeq([i \in 1..Len(ord) |-> base \o ord[i]],
              LAMBDA p : RelativeTo(p, base) \in tree /\ HasSuffix(p, ext))

InitPy == << <<"__init__", "py">> >>

(***************************************************************************)
(* _discover_modules                                                       *)
(***************************************************************************)
\* the name given to a file found in a package directory
PackageModuleName(root, p) ==
    JoinDots(<<Last(root)>> \o WithSuffixStripped(RelativeTo(p, root)))

\* a slip: the package branch's name, with the directory's own name in front
PlainModuleName_Rooted(input_path, p) ==
    JoinDots(<<Last(input_path)>> \o WithSuffixStripped(RelativeTo(p, input_path)))

\* the name given to a file found in a directory that is not a package
PlainModuleName(input_path, p) ==
    JoinDots(WithSuffixStripped(RelativeTo(p, input_path)))

DiscoverModules(inp, tree, ord) ==
    IF inp.kind = "file"
    THEN IF ~HasSuffix(inp.path, "py")
         THEN [err |-> "InvalidInput", modules |-> <<>>]
         ELSE [err |-> "none",
               modules |-> << [name |-> Stem(inp.path), path |-> Resolve(inp.path)] >>]
    ELSE IF inp.kind = "missing"
    THEN [err |-> "NotFound", modules |-> <<>>]
    ELSE IF InitPy \in tree
    THEN LET root == Resolve(inp.path)
             found == Rglob(root, tree, ord, "py")
         IN  [err |-> "none",
              modules |-> [i \in 1..Len(found) |->
                              [name |-> PackageModuleName(root, found[i]),
                               path |-> found[i]]]]
    ELSE LET found == Rglob(inp.path, tree, ord, "py")
         IN  [err |-> "none",
              modules |-> [i \in 1..Len(found) |->
                              [name |-> PlainModuleName(inp.path, found[i]),
                               path |-> Resolve(found[i])]]]

(***************************************************************************)
(* The executable search path.                                             *)
(***************************************************************************)
Unset == "<unset>"

\* the directory that holds each compiler front-end
DirOf(prog) == IF prog = "cl" THEN "msvcbin" ELSE "gccbin"

\* shutil.which(prog): whether prog is resolvable on the search path
Which(prog, env) == DirOf(prog) \in env.PATH

(***************************************************************************)
(* _windows_gcc_compatibility                                              *)
(***************************************************************************)
\* the substrings of a target triple that the check looks for
TripleMarkers == {"x86_64", "x64", "amd64", "i686", "i386", "i586", "mingw"}

\* a slip: the 32-bit markers are never looked for
GccArch_Only64(triple) ==
    IF triple \cap {"x86_64", "x64", "amd64"} # {} THEN "x86_64" ELSE "unknown"

GccArch(triple) ==
    IF triple \cap {"x86_64", "x64", "amd64"} # {} THEN "x86_64"
    ELSE IF triple \cap {"i686", "i386", "i586"} # {} THEN "i686"
    ELSE "unknown"

PyArch(h) == IF h.py_is_64 THEN "x86_64" ELSE "i686"

WindowsGccCompatibility(h, env) ==
    IF h.platform # "win"
    THEN [compatible |-> FALSE, reason |-> "not windows"]
    ELSE IF ~Which("gcc", env)
    THEN [compatible |-> FALSE, reason |-> "gcc not found on PATH"]
    ELSE IF h.dumpmachine_fails
    THEN [compatible |-> FALSE, reason |-> "failed to run gcc -dumpmachine"]
    ELSE IF GccArch(h.triple) = "unknown"
    THEN [compatible |-> FALSE, reason |-> "unknown arch"]
    ELSE IF GccArch(h.triple) # PyArch(h)
    THEN [compatible |-> FALSE, reason |-> "architecture mismatch"]
    ELSE IF "mingw" \notin h.triple
    THEN [compatible |-> FALSE, reason |-> "does not look like mingw"]
    ELSE [compatible |-> TRUE, reason |-> "triple"]

(***************************************************************************)
(* _diagnose_vs_build_tools                                                *)
(*                                                                         *)
(* An installation path is a string; the model keeps the directory it      *)
(* names (inst) and how the string is spelled (form), so that two strings  *)
(* can differ and still name one directory.                                *)
(***************************************************************************)
\* the fixed list of well-known installation directories, in probe order
SearchPaths ==
    << [inst |-> "VS2022BuildTools", form |-> "canon"],
       [inst |-> "VS2019BuildTools", form |-> "canon"] >>

PythonArchLabel(h) == IF h.py_is_64 THEN "x86_64" ELSE "x86"

\* os.path.exists of an installation directory, and of its vcvarsall.bat
InstallExists(h, path) == path.inst \in h.installed

VcvarsExists(h, path) == path.inst \in h.vcvars

InSeq(x, s) == \E i \in 1..Len(s) : s[i] = x

\* the loop over search_paths
RECURSIVE ProbeFixedPaths(_, _, _)
ProbeFixedPaths(h, paths, info) ==
    IF paths = <<>> THEN info
    ELSE LET vs_path == Head(paths)
             next == IF ~InstallExists(h, vs_path) THEN info
                     ELSE IF VcvarsExists(h, vs_path)
                     THEN [info EXCEPT
                             !.vs_installations = Append(@, vs_path),
                             !.build_tools_installed = TRUE,
                             !.vcvars_found = TRUE,
                             !.vcvars_paths = Append(@, vs_path),
                             !.suggested_commands = Append(@, vs_path)]
                     ELSE [info EXCEPT
                             !.vs_installations = Append(@, vs_path),
                             !.build_tools_installed = TRUE]
         IN  ProbeFixedPaths(h, Tail(paths), next)

\* what a locator that is absent, fails or prints nothing contributes
NoAnswer == [inst |-> "", form |-> ""]

\* the loop over the places where the locator may be; an answer is the
\* installation path the locator printed, or NoAnswer
RECURSIVE ProbeVswhere(_, _, _)
ProbeVswhere(h, answers, info) ==
    IF answers = <<>> THEN info
    ELSE LET inst_path == Head(answers)
             next == IF inst_path = NoAnswer \/ InSeq(inst_path, info.vs_installations)
                     THEN info
                     ELSE IF VcvarsExists(h, inst_path)
                             /\ ~InSeq(inst_path, info.vcvars_paths)
                     THEN [info EXCEPT
                             !.vs_installations = Append(@, inst_path),
                             !.vcvars_found = TRUE,
                             !.vcvars_paths = Append(@, inst_path),
                             !.suggested_commands = Append(@, inst_path)]
                     ELSE [info EXCEPT !.vs_installations = Append(@, inst_path)]
         IN  ProbeVswhere(h, Tail(answers), next)

DiagnoseVsBuildTools(h, env) ==
    LET info0 == [build_tools_installed |-> FALSE,
                  vcvars_found |-> FALSE,
                  cl_exe_found |-> FALSE,
                  vcvars_paths |-> <<>>,
                  vs_installations |-> <<>>,
                  suggested_commands |-> <<>>,
                  python_arch |-> PythonArchLabel(h)]
        info1 == ProbeFixedPaths(h, SearchPaths, info0)
        info2 == [info1 EXCEPT !.cl_exe_found = Which("cl", env)]
    IN  ProbeVswhere(h, h.vswhere, info2)

(***************************************************************************)
(* _setup_vs_environment                                                   *)
(*                                                                         *)
(* What the world outside the function does during one call is the record  *)
(* o: write_fails (writing the driver script raises), timeout (the script  *)
(* does not end in time), returncode, dump_written (the script got as far  *)
(* as writing the captured environment), vcvars_works (the vendor script   *)
(* put the compiler on the search path), unlink_bat_fails and              *)
(* unlink_out_fails (deleting a scratch file raises OSError).              *)
(***************************************************************************)
Outcomes ==
    [write_fails : BOOLEAN, timeout : BOOLEAN, returncode : {0, 1},
     dump_written : BOOLEAN, vcvars_works : BOOLEAN,
     unlink_bat_fails : BOOLEAN, unlink_out_fails : BOOLEAN]

\* the scratch files of the n-th call: tempfile gives every call fresh names
TempBat(n) == [call |-> n, kind |-> "bat"]

TempOut(n) == [call |-> n, kind |-> "env.txt"]

\* the environment of the child process once the vendor script has run
ChildEnvironment(env, o) ==
    IF o.vcvars_works
    THEN [env EXCEPT !.PATH = @ \cup {DirOf("cl")}, !.INCLUDE = "vcinclude"]
    ELSE env

\* the loop over env_lines: a variable that is set in the dump overwrites
MergeVar(old, new) == IF new # Unset THEN new ELSE old

MergeEnvironment(env, dump) ==
    [PATH    |-> dump.PATH,
     CC      |-> MergeVar(env.CC, dump.CC),
     CXX     |-> MergeVar(env.CXX, dump.CXX),
     INCLUDE |-> MergeVar(env.INCLUDE, dump.INCLUDE)]

\* the finally block: the second unlink is not reached when the first raises
CleanupScratch(tmp, n, o) ==
    IF o.unlink_bat_fails THEN tmp
    ELSE IF TempOut(n) \in tmp /\ ~o.unlink_out_fails
    THEN tmp \ {TempBat(n), TempOut(n)}
    ELSE tmp \ {TempBat(n)}

\* a slip: the script's having run is taken for success
SetupVerified_Unchecked(success, env) == success

\* the verification after the finally block
SetupVerified(success, env) == success /\ Which("cl", env)

\* the n-th call of the function, in environment env with scratch files tmp
SetupVsEnvironment(h, env, tmp, n, o) ==
    LET diagnostics == DiagnoseVsBuildTools(h, env)
        none == [ret |-> FALSE, environ |-> env, tmp |-> tmp, ran |-> FALSE,
                 merged |-> FALSE, created |-> {}, o |-> o]
    IN
    IF ~diagnostics.vcvars_found THEN none
    ELSE IF o.write_fails
    THEN [none EXCEPT !.tmp = tmp \cup {TempBat(n)}, !.created = {TempBat(n)}]
    ELSE LET onDisk == tmp \cup {TempBat(n)}
                           \cup (IF o.dump_written THEN {TempOut(n)} ELSE {})
             made == {TempBat(n)} \cup (IF o.dump_written THEN {TempOut(n)} ELSE {})
             success == TempOut(n) \in onDisk
             env2 == IF success /\ ~o.timeout
                     THEN MergeEnvironment(env, ChildEnvironment(env, o))
                     ELSE env
         IN  [ret     |-> IF o.timeout THEN FALSE ELSE SetupVerified(success, env2),
              environ |-> env2,
              tmp     |-> CleanupScratch(onDisk, n, o),
              ran     |-> TRUE,
              merged  |-> success /\ ~o.timeout,
              created |-> made,
              o       |-> o]

(***************************************************************************)
(* _get_python_library_info and _check_python_libraries                    *)
(***************************************************************************)
\* library_name: the .lib suffix is appended on Windows only
ExpectedLibrary(h) == IF h.platform = "win" THEN "python312.lib" ELSE "python312"

\* f.endswith('.lib') and f.startswith('python') for the file names of the model
EndsWithLib(f) == f \in {"python312.lib", "python3.lib", "foo.lib"}

StartsWithPython(f) == f \in {"python312.lib", "python3.lib", "python312.dll"}

\* a slip: any import library in the directory is taken for Python's
CheckPythonLibraries_AnyLib(h) ==
    LET lib_files == SelectSeq(h.lib_listing, EndsWithLib)
    IN  h.include_exists /\ h.libdir_exists /\ lib_files # <<>>

CheckPythonLibraries(h) ==
    LET lib_files == SelectSeq(h.lib_listing, EndsWithLib)
        python_libs == SelectSeq(lib_files, StartsWithPython)
    IN  /\ h.include_exists
        /\ h.libdir_exists
        /\ lib_files # <<>>
        /\ (InSeq(ExpectedLibrary(h), lib_files) \/ python_libs # <<>>)

\* library_name.replace('.lib', '') for the file names of the model
StripLib(f) ==
    CASE f = "python312.lib" -> "python312"
      [] f = "python3.lib" -> "python3"
      [] f = "foo.lib" -> "foo"
      [] OTHER -> f

\* the Extension objects: python_info is fetched anew at line 534, so the
\* library is the expected one whatever the check settled for
ExtensionModules(h, mods) ==
    [i \in 1..Len(mods) |->
        [name |-> mods[i].name, libraries |-> <<StripLib(ExpectedLibrary(h))>>]]

\* the message of the error raised when the check fails: lines 523-532
DevFilesMessage == [dirs |-> {"include_dir", "library_dir"}, commands |-> <<>>]

\* the message of the error raised at line 544
LibraryDirMessage == [dirs |-> {"library_dir"}, commands |-> <<>>]

(***************************************************************************)
(* Files the build writes.                                                 *)
(***************************************************************************)
\* the directory the source files are in
SourceBase(inp) == IF inp.kind = "file" THEN Cwd ELSE Resolve(inp.path)

\* PurePath.with_suffix(ext) of a file with a suffix
WithSuffix(p, ext) == Front(p) \o <<Append(Front(Last(p)), ext)>>

\* the intermediate file the code generator writes next to a source file
GeneratedFile(inp, m, ext) == WithSuffix(RelativeTo(m.path, SourceBase(inp)), ext)

GeneratedFiles(inp, mods, ext) ==
    {GeneratedFile(inp, mods[i], ext) : i \in 1..Len(mods)}

\* the output directory, out_dir
OutDir == << <<"build_pyd">> >>

\* Path(cmd.build_lib, *path_parts[:-1], os.path.basename(ext_filename))
ExpectedArtifact(name) ==
    OutDir \o [i \in 1..(Len(name) - 1) |-> <<name[i]>>] \o << <<Last(name), "pyd">> >>

ExpectedArtifacts(mods) == {ExpectedArtifact(mods[i].name) : i \in 1..Len(mods)}

\* a slip: every expected path is reported, on disk or not
CollectArtifacts_Unchecked(mods, onDisk) ==
    [i \in 1..Len(mods) |-> Resolve(ExpectedArtifact(mods[i].name))]

\* the loop that collects the built artifacts
CollectArtifacts(mods, onDisk) ==
    LET present == SelectSeq(mods, LAMBDA m : ExpectedArtifact(m.name) \in onDisk)
    IN  [i \in 1..Len(present) |-> Resolve(ExpectedArtifact(present[i].name))]

\* a slip: a plain assignment in place of setdefault
SetDefault_Overwrite(old, value) == value

\* os.environ.setdefault(name, value)
SetDefault(old, value) == IF old = Unset THEN value ELSE old

\* the patterns _cleanup_intermediate_files removes
PatternsToRemove(keep_c_files, keep_annotations) ==
    (IF keep_c_files THEN {} ELSE {"c"})
        \cup (IF keep_annotations THEN {} ELSE {"html", "css"})

\* input_path.rglob(pattern) over all patterns: nothing when input_path is a file
CleanupMatches(inp, tree, exts) ==
    IF inp.kind # "dir" THEN {}
    ELSE {f \in tree : \E e \in exts : HasSuffix(f, e)}

\* the build-temp directory, and the file the compiler leaves there for a unit
TempDir == << <<"temp">> >>

TempFile(name, ext) == TempDir \o <<Append(name, ext)>>

\* what the native build leaves in the build-temp directory for one unit:
\* MSVC writes an object file and an import library, gcc an object file
TempByproducts(h, a, name) ==
    IF h.platform = "win" /\ ~a.use_mingw
    THEN {TempFile(name, "obj"), TempFile(name, "lib")}
    ELSE {TempFile(name, "o")}

\* the patterns _cleanup_build_temp_files removes
TempPatternsToRemove == {"obj", "exp", "lib", "pdb", "res"}

\* build_temp_dir.rglob(pattern) over all patterns
TempCleanupMatches(files) ==
    {f \in files : \E e \in TempPatternsToRemove : HasSuffix(f, e)}

\* a slip: the try around the whole loop, so the first failure ends it
RECURSIVE RemoveEach_StopAtFailure(_, _, _)
RemoveEach_StopAtFailure(found, present, locked) ==
    IF found = <<>> THEN present
    ELSE IF Head(found) \in locked THEN present
    ELSE RemoveEach_StopAtFailure(Tail(found), present \ {Head(found)}, locked)

\* the loop over the files found: unlink raises OSError on a locked file, the
\* error is caught and the loop goes on
RECURSIVE RemoveEach(_, _, _)
RemoveEach(found, present, locked) ==
    IF found = <<>> THEN present
    ELSE IF Head(found) \in locked THEN RemoveEach(Tail(found), present, locked)
    ELSE RemoveEach(Tail(found), present \ {Head(found)}, locked)

(***************************************************************************)
(* Initial states.                                                         *)
(***************************************************************************)
\* every ordering of a finite set as a sequence
Orderings(S) ==
    {f \in [1..Cardinality(S) -> S] : \A i, j \in 1..Cardinality(S) : f[i] = f[j] => i = j}

\* the outcome record of a call whose outside world was not observed
Unobserved ==
    [write_fails |-> FALSE, timeout |-> FALSE, returncode |-> 0,
     dump_written |-> FALSE, vcvars_works |-> FALSE,
     unlink_bat_fails |-> FALSE, unlink_out_fails |-> FALSE]

NoSetupCall ==
    [called |-> FALSE, ret |-> FALSE, ran |-> FALSE, merged |-> FALSE,
     created |-> {}, o |-> Unobserved]

\* no error raised yet: the message names nothing
NoMessage == [dirs |-> {}, commands |-> <<>>]

\* _diagnose_vs_build_tools not called yet
NoDiagnosis ==
    [called |-> FALSE, build_tools_installed |-> FALSE, vcvars_found |-> FALSE,
     cl_exe_found |-> FALSE, vcvars_paths |-> <<>>, vs_installations |-> <<>>,
     suggested_commands |-> <<>>, python_arch |-> ""]

\* convert() called as a library function, not through the command line
NoCli ==
    [used |-> FALSE, diagnose |-> FALSE, input_given |-> FALSE, diagnosed |-> FALSE,
     exited |-> FALSE, exit_code |-> 0]

NoCompatCall == [called |-> FALSE, compatible |-> FALSE, reason |-> ""]

Environments ==
    [PATH : SUBSET {"gccbin", "msvcbin"}, CC : {Unset, "clang"}, CXX : {Unset},
     INCLUDE : {Unset}]

\* files that cannot be deleted (open in another program, or read-only): one
\* generated file of the plain call, one of its object files
LockedSets ==
    {{}, {<< <<"a", "c">> >>}, {TempFile(<<"pkg", "a">>, "obj")},
     {<< <<"a", "c">> >>, TempFile(<<"pkg", "a">>, "obj")}}

\* what os.listdir of the library directory may give
Listings ==
    {<<>>, <<"python312.lib">>, <<"python312.dll">>, <<"foo.lib">>,
     <<"foo.lib", "python3.lib">>}

\* machines with a 64-bit MinGW gcc
Hosts ==
    [platform : {"win", "linux"}, py_is_64 : {TRUE},
     triple : {{"x86_64", "mingw"}}, dumpmachine_fails : {FALSE},
     installed : {{}, {"VS2022BuildTools"}, {"VS2022BuildTools", "VS2019BuildTools"}},
     vcvars : {{}, {"VS2022BuildTools"}, {"VS2022BuildTools", "VS2019BuildTools"}},
     vswhere : {<<>>},
     include_exists : BOOLEAN, libdir_exists : BOOLEAN,
     lib_listing : Listings,
     locked : LockedSets]

\* the development files as the installer of the interpreter lays them out
DevFilesInstalled(h) ==
    h.include_exists /\ h.libdir_exists /\ h.lib_listing = <<"python312.lib">>

NothingLocked(h) == h.locked = {}

FileA == << <<"a", "py">> >>

FileADotB == << <<"a", "b", "py">> >>

FileAThenB == << <<"a">>, <<"b", "py">> >>

FileSubB == << <<"sub">>, <<"b", "py">> >>

FileNotes == << <<"notes", "txt">> >>

\* a hand-written C source and a hand-written style sheet
FileHelperC == << <<"helper", "c">> >>

FileStyleCss == << <<"style", "css">> >>

\* the inputs of convert() that the pipeline is run on
ConvertInputs ==
    {[input |-> [kind |-> "missing", path |-> << <<"gone">> >>], tree |-> {}],
     [input |-> [kind |-> "file", path |-> << <<"mod", "py">> >>],
      tree |-> {<< <<"mod", "py">> >>}],
     [input |-> [kind |-> "file", path |-> << <<"mod", "txt">> >>],
      tree |-> {<< <<"mod", "txt">> >>}],
     [input |-> [kind |-> "dir", path |-> << <<"proj">> >>], tree |-> {FileNotes}],
     [input |-> [kind |-> "dir", path |-> << <<"proj">> >>], tree |-> {FileA, FileSubB}],
     [input |-> [kind |-> "dir", path |-> << <<"ext">> >>],
      tree |-> {FileA, FileHelperC, FileStyleCss}],
     [input |-> [kind |-> "dir", path |-> << <<"pkg">> >>], tree |-> {InitPy, FileA}]}

\* no step of any function has run yet
NothingRun ==
    /\ tmpFiles = {}
    /\ outFiles = {}
    /\ error = "none"
    /\ modules = <<>>
    /\ built = <<>>
    /\ calls = [setup_vs |-> 0, cythonize |-> 0, build_ext |-> 0, cleanup |-> 0,
                convert |-> 0]
    /\ vs = NoSetupCall
    /\ compat = NoCompatCall
    /\ message = NoMessage
    /\ ext_modules = <<>>
    /\ diagnosis = NoDiagnosis

\* before a call of convert: neither directory made, nothing built
InitCall ==
    /\ NothingRun
    /\ dirs = {}
    /\ buildTemp = {}

\* a machine on which the MSVC build works as it stands
WorkingMachine(h, env) ==
    /\ h.platform = "win"
    /\ h.vcvars = {"VS2022BuildTools"}
    /\ DevFilesInstalled(h)
    /\ env.PATH = {"msvcbin"}
    /\ env.CC = Unset

\* a build-temp directory is given only on the working machine
TempDirGiven(h, env, a) == a.temp => WorkingMachine(h, env)

\* the plain call: one package directory, every option at its default
PlainCall(a) ==
    /\ a.input.path = << <<"pkg">> >>
    /\ a.cleanup

\* the machine varies in its toolchains, with the development files there or
\* the library directory empty
ToolchainsVary(h) ==
    /\ NothingLocked(h)
    /\ h.installed \subseteq {"VS2022BuildTools"}
    /\ h.include_exists
    /\ h.libdir_exists
    /\ h.lib_listing \in {<<>>, <<"python312.lib">>}

\* the machine varies in its development files
DevFilesVary(h, env) ==
    /\ NothingLocked(h)
    /\ env.CC = Unset
    /\ h.vcvars = {"VS2022BuildTools"}
    /\ h.libdir_exists \/ h.lib_listing = <<>>

\* a Windows machine with two Visual Studio installations
TwoInstallations(h, env) ==
    /\ NothingLocked(h)
    /\ h.platform = "win"
    /\ h.installed = {"VS2022BuildTools", "VS2019BuildTools"}
    /\ DevFilesInstalled(h)
    /\ env.CC = Unset

\* Either the machine varies under the plain call (with either toolchain), or
\* the call varies on the working machine.
InitConvert ==
    /\ host \in {h \in Hosts : h.vcvars \subseteq h.installed}
    /\ \E c \in ConvertInputs :
          /\ args \in [input : {c.input}, use_mingw : BOOLEAN, cleanup : BOOLEAN,
                       keep_c_files : {FALSE}, annotate : {FALSE}, temp : BOOLEAN]
          /\ srcTree = c.tree
          /\ order \in Orderings(c.tree)
    /\ environ \in Environments
    /\ \/ PlainCall(args) /\ ToolchainsVary(host)
       \/ PlainCall(args) /\ DevFilesVary(host, environ)
       \/ PlainCall(args) /\ TwoInstallations(host, environ)
       \/ PlainCall(args) /\ WorkingMachine(host, environ)
       \/ NothingLocked(host) /\ WorkingMachine(host, environ)
    /\ TempDirGiven(host, environ, args)
    /\ InitCall

Init ==
    /\ InitConvert
    /\ pc = "idle"
    /\ cli = NoCli

(***************************************************************************)
(* convert(), lines 711-727: the input check, the directories, discovery   *)
(***************************************************************************)
Raise(e) == pc' = "raised" /\ error' = e

\* a slip: the build-temp directory is left to the build to make
DirsToMake_OutputOnly(a) == {"out"}

\* lines 715-722: the directories convert makes before it discovers anything
DirsToMake(a) == {"out"} \cup (IF a.temp THEN {"temp"} ELSE {})

ConvertBegin ==
    /\ pc = "idle"
    /\ IF args.input.kind = "missing"
       THEN Raise("NotFound") /\ UNCHANGED dirs
       ELSE /\ dirs' = dirs \cup DirsToMake(args)
            /\ pc' = "discover"
            /\ UNCHANGED error
    /\ calls' = [calls EXCEPT !.convert = @ + 1]
    /\ UNCHANGED <<host, args, srcTree, order, environ, tmpFiles, outFiles,
                   modules, built, vs, compat,
                   message, ext_modules, buildTemp, diagnosis, cli>>

ConvertDiscover ==
    /\ pc = "discover"
    /\ LET r == DiscoverModules(args.input, srcTree, order)
       IN  IF r.err # "none" THEN Raise(r.err) /\ UNCHANGED modules
           ELSE IF r.modules = <<>> THEN Raise("NoModulesFound") /\ UNCHANGED modules
           ELSE modules' = r.modules /\ pc' = "msvc_setup" /\ UNCHANGED error
    /\ UNCHANGED <<host, args, srcTree, order, environ, dirs, tmpFiles, outFiles,
                   built, calls, vs, compat,
                   message, ext_modules, buildTemp, diagnosis, cli>>

(***************************************************************************)
(* One call of _setup_vs_environment from the running code.                *)
(***************************************************************************)
\* vs keeps what the call returned and did; what the outside world did during
\* the call (observed) is kept only where a property is stated about it
CallSetup(r, observed) ==
    /\ environ' = r.environ
    /\ tmpFiles' = r.tmp
    /\ vs' = [called |-> TRUE, ret |-> r.ret, ran |-> r.ran, merged |-> r.merged,
              created |-> r.created, o |-> observed]
    /\ calls' = [calls EXCEPT !.setup_vs = @ + 1]

(***************************************************************************)
(* convert(), lines 731-741: the compiler setup before the build           *)
(***************************************************************************)
ConvertMsvcSetup ==
    /\ pc = "msvc_setup"
    /\ IF host.platform = "win" /\ ~args.use_mingw
          /\ ~DiagnoseVsBuildTools(host, environ).cl_exe_found
       THEN \E o \in Outcomes :
               CallSetup(SetupVsEnvironment(host, environ, tmpFiles,
                                            calls.setup_vs + 1, o), Unobserved)
       ELSE UNCHANGED <<environ, tmpFiles, vs, calls>>
    /\ pc' = "check_libraries"
    /\ UNCHANGED <<host, args, srcTree, order, dirs, outFiles, error, modules,
                   built, compat,
                   message, ext_modules, buildTemp, diagnosis, cli>>

(***************************************************************************)
(* _build_extensions                                                       *)
(***************************************************************************)
\* lines 516-544: Cython must import, the development files must be there
BuildCheckLibraries ==
    /\ pc = "check_libraries"
    /\ \E cython_installed \in BOOLEAN :
          IF ~cython_installed
          THEN Raise("CythonMissing") /\ UNCHANGED message
          ELSE IF ~CheckPythonLibraries(host)
          THEN Raise("EnvironmentError") /\ message' = DevFilesMessage
          ELSE IF host.platform = "win" /\ ~args.use_mingw /\ ~host.libdir_exists
          THEN Raise("EnvironmentError") /\ message' = LibraryDirMessage
          ELSE pc' = "cythonize" /\ UNCHANGED <<error, message>>
    /\ UNCHANGED <<host, args, srcTree, order, environ, dirs, tmpFiles, outFiles,
                   modules, built, calls, vs, compat,
                   ext_modules, buildTemp, diagnosis, cli>>

\* lines 546-586: the code generator runs on all compile units at once
BuildCythonize ==
    /\ pc = "cythonize"
    /\ calls' = [calls EXCEPT !.cythonize = @ + 1]
    /\ ext_modules' = ExtensionModules(host, modules)
    /\ \E ok \in BOOLEAN :
          IF ok
          THEN /\ srcTree' = srcTree \cup GeneratedFiles(args.input, modules, "c")
                     \cup (IF args.annotate
                           THEN GeneratedFiles(args.input, modules, "html")
                           ELSE {})
               /\ pc' = "select_compiler"
               /\ UNCHANGED error
          ELSE /\ \E written \in SUBSET GeneratedFiles(args.input, modules, "c") :
                     srcTree' = srcTree \cup written
               /\ Raise("CodegenFailed")
    /\ UNCHANGED <<host, args, order, environ, dirs, tmpFiles, outFiles, modules,
                   built, vs, compat,
                   message, buildTemp, diagnosis, cli>>

\* a slip: only the first script found is suggested
RemediationCommands_FirstOnly(found) ==
    IF found.suggested_commands = <<>> THEN <<>>
    ELSE <<Head(found.suggested_commands)>>

\* lines 617-618: the commands the message of the error lists
RemediationCommands(found) == found.suggested_commands

\* the message of the error raised at lines 613-621
SetupFailedMessage(h, env) ==
    [dirs |-> {}, commands |-> RemediationCommands(DiagnoseVsBuildTools(h, env))]

\* lines 589-625: the compiler is chosen and checked
BuildSelectCompiler ==
    /\ pc = "select_compiler"
    /\ IF host.platform # "win"
       THEN /\ pc' = "run_build"
            /\ UNCHANGED <<environ, tmpFiles, vs, calls, compat, error, message>>
       ELSE IF args.use_mingw
       THEN IF Which("gcc", environ)
            THEN /\ compat' = [called |-> TRUE] @@ WindowsGccCompatibility(host, environ)
                 /\ environ' = [environ EXCEPT !.CC = SetDefault(@, "gcc"),
                                               !.CXX = SetDefault(@, "g++")]
                 /\ pc' = "run_build"
                 /\ UNCHANGED <<tmpFiles, vs, calls, error, message>>
            ELSE /\ Raise("CompilerUnavailable")
                 /\ UNCHANGED <<environ, tmpFiles, vs, calls, compat, message>>
       ELSE IF Which("cl", environ)
       THEN /\ pc' = "run_build"
            /\ UNCHANGED <<environ, tmpFiles, vs, calls, compat, error, message>>
       ELSE \E o \in Outcomes :
               LET r == SetupVsEnvironment(host, environ, tmpFiles,
                                           calls.setup_vs + 1, o)
               IN  /\ CallSetup(r, Unobserved)
                   /\ IF r.ret
                      THEN pc' = "run_build" /\ UNCHANGED <<error, message>>
                      ELSE /\ Raise("CompilerUnavailable")
                           /\ message' = SetupFailedMessage(host, r.environ)
                   /\ UNCHANGED compat
    /\ UNCHANGED <<host, args, srcTree, order, dirs, outFiles, modules, built,
                   ext_modules, buildTemp, diagnosis, cli>>

\* a slip: the source tree is tidied up after a failed build, too
AfterBuild_CleanupOnFailure(outcome) == IF outcome = "ok" THEN "collect" ELSE "cleanup"

\* where the call goes on after run_command: an exception leaves
\* _build_extensions and convert at once
AfterBuild(outcome) == IF outcome = "ok" THEN "collect" ELSE "raised"

\* lines 627-655: the native build step; any of the units may get compiled,
\* and any of the compiled ones linked into its artifact
BuildRun ==
    /\ pc = "run_build"
    /\ calls' = [calls EXCEPT !.build_ext = @ + 1]
    /\ \E compiled \in SUBSET (1..Len(modules)) : \E linked \in SUBSET compiled :
          /\ buildTemp' = buildTemp \cup
                UNION {TempByproducts(host, args, modules[i].name) : i \in compiled}
          /\ outFiles' = outFiles \cup {ExpectedArtifact(modules[i].name) : i \in linked}
    /\ \E outcome \in {"ok", "DistutilsPlatformError", "other error"} :
          /\ pc' = AfterBuild(outcome)
          /\ error' = IF outcome = "ok" THEN error ELSE "BuildFailed"
    /\ UNCHANGED <<host, args, srcTree, order, environ, dirs, tmpFiles, modules,
                   built, vs, compat,
                   message, ext_modules, diagnosis, cli>>

\* lines 657-666: the artifacts that exist are collected
BuildCollect ==
    /\ pc = "collect"
    /\ built' = CollectArtifacts(modules, outFiles)
    /\ pc' = "cleanup"
    /\ UNCHANGED <<host, args, srcTree, order, environ, dirs, tmpFiles, outFiles,
                   error, modules, calls, vs, compat,
                   message, ext_modules, buildTemp, diagnosis, cli>>

(***************************************************************************)
(* convert(), lines 757-771: cleanup of the source tree, and the return    *)
(***************************************************************************)
\* _cleanup_intermediate_files: the files are met in the order rglob yields
CleanupIntermediateFiles(inp, tree, keep_c_files, keep_annotations, locked, after) ==
    \E found \in Orderings(CleanupMatches(inp, tree,
                               PatternsToRemove(keep_c_files, keep_annotations))) :
        after = RemoveEach(found, tree, locked)

\* _cleanup_build_temp_files: nothing is done when the directory is not there
CleanupBuildTempFiles(exists, files, locked, after) ==
    IF ~exists THEN after = files
    ELSE \E found \in Orderings(TempCleanupMatches(files)) :
            after = RemoveEach(found, files, locked)

ConvertCleanup ==
    /\ pc = "cleanup"
    /\ IF args.cleanup
       THEN /\ CleanupIntermediateFiles(args.input, srcTree, args.keep_c_files,
                                        args.annotate, host.locked, srcTree')
            /\ IF args.temp
               THEN CleanupBuildTempFiles("temp" \in dirs, buildTemp, host.locked,
                                          buildTemp')
               ELSE UNCHANGED buildTemp
            /\ calls' = [calls EXCEPT !.cleanup = @ + 1]
       ELSE UNCHANGED <<srcTree, buildTemp, calls>>
    /\ pc' = "done"
    /\ UNCHANGED <<host, args, order, environ, dirs, tmpFiles, outFiles, error,
                   modules, built, vs, compat,
                   message, ext_modules, diagnosis, cli>>

Next ==
    \/ ConvertBegin
    \/ ConvertDiscover
    \/ ConvertMsvcSetup
    \/ BuildCheckLibraries
    \/ BuildCythonize
    \/ BuildSelectCompiler
    \/ BuildRun
    \/ BuildCollect
    \/ ConvertCleanup

Spec == Init /\ [][Next]_vars

(***************************************************************************)
(* _cli(): the command-line entry point around convert()                   *)
(***************************************************************************)
\* a slip: the generic failure code of a shell command
CliExitCode_One(err) == IF err = "none" THEN 0 ELSE 1

\* lines 960 and 962-965: the value _cli returns after the call of convert
CliExitCode(err) == IF err = "none" THEN 0 ELSE 2

\* the command line: --diagnose given or not, an input path given or not
InitCli ==
    /\ InitConvert
    /\ pc = "cli"
    /\ cli \in [used : {TRUE}, diagnose : BOOLEAN, input_given : BOOLEAN,
                 diagnosed : {FALSE}, exited : {FALSE}, exit_code : {0}]

\* lines 915-923: diagnostics only, or on to the conversion
CliMain ==
    /\ pc = "cli"
    /\ IF cli.diagnose \/ ~cli.input_given
       THEN /\ cli' = [cli EXCEPT !.diagnosed = TRUE, !.exited = TRUE, !.exit_code = 0]
            /\ diagnosis' = [called |-> TRUE] @@ DiagnoseVsBuildTools(host, environ)
            /\ pc' = "exited"
       ELSE /\ pc' = "idle"
            /\ UNCHANGED <<cli, diagnosis>>
    /\ UNCHANGED <<host, args, srcTree, order, environ, dirs, tmpFiles, outFiles,
                   error, modules, built, calls, vs, compat,
                   message, ext_modules, buildTemp>>

\* lines 925-965: convert has returned or raised; every Exception is caught
CliReturn ==
    /\ cli.used
    /\ pc \in {"done", "raised"}
    /\ cli' = [cli EXCEPT !.exited = TRUE, !.exit_code = CliExitCode(error)]
    /\ pc' = "exited"
    /\ UNCHANGED <<host, args, srcTree, order, environ, dirs, tmpFiles, outFiles,
                   error, modules, built, calls, vs, compat,
                   message, ext_modules, buildTemp, diagnosis>>

NextCli ==
    \/ CliMain
    \/ Next
    \/ CliReturn

SpecCli == InitCli /\ [][NextCli]_vars

(***************************************************************************)
(* _discover_modules on its own, over every small source tree.             *)
(***************************************************************************)
DiscoverCandidates == {InitPy, FileA, FileADotB, FileAThenB, FileSubB, FileNotes}

DiscoverInputs ==
    {[kind |-> "missing", path |-> << <<"gone">> >>],
     [kind |-> "file", path |-> << <<"mod", "py">> >>],
     [kind |-> "file", path |-> << <<"mod", "txt">> >>],
     [kind |-> "file", path |-> << <<"a", "b", "py">> >>],
     [kind |-> "dir", path |-> << <<"pkg">> >>]}

DefaultHost ==
    CHOOSE h \in Hosts : /\ h.platform = "win"
                         /\ h.installed = {"VS2022BuildTools"}
                         /\ h.vcvars = {"VS2022BuildTools"}
                         /\ DevFilesInstalled(h)
                         /\ NothingLocked(h)

DefaultEnviron == [PATH |-> {"msvcbin"}, CC |-> Unset, CXX |-> Unset, INCLUDE |-> Unset]

DefaultArgs(inp) ==
    [input |-> inp, use_mingw |-> FALSE, cleanup |-> TRUE, keep_c_files |-> FALSE,
     annotate |-> FALSE, temp |-> FALSE]

InitDiscover ==
    /\ host = DefaultHost
    /\ environ = DefaultEnviron
    /\ \E inp \in DiscoverInputs :
          /\ args = DefaultArgs(inp)
          /\ IF inp.kind = "dir"
             THEN srcTree \in {t \in SUBSET DiscoverCandidates : Cardinality(t) <= MaxFiles}
             ELSE srcTree = {}
    /\ order \in Orderings(srcTree)
    /\ pc = "discover_idle"
    /\ InitCall
    /\ cli = NoCli

CallDiscover ==
    /\ pc = "discover_idle"
    /\ LET r == DiscoverModules(args.input, srcTree, order)
       IN  modules' = r.modules /\ error' = r.err
    /\ pc' = "discovered"
    /\ UNCHANGED <<host, args, srcTree, order, environ, dirs, tmpFiles, outFiles,
                   built, calls, vs, compat,
                   message, ext_modules, buildTemp, diagnosis, cli>>

NextDiscover == CallDiscover

SpecDiscover == InitDiscover /\ [][NextDiscover]_vars

(***************************************************************************)
(* _setup_vs_environment on its own, with the outside world observed.      *)
(***************************************************************************)
InitSetup ==
    /\ host \in {h \in Hosts : h.platform = "win" /\ DevFilesInstalled(h)
                               /\ NothingLocked(h)
                               /\ h.vcvars \subseteq h.installed}
    /\ environ \in Environments
    /\ args = DefaultArgs([kind |-> "file", path |-> << <<"mod", "py">> >>])
    /\ srcTree = {<< <<"mod", "py">> >>}
    /\ order \in Orderings(srcTree)
    /\ pc = "setup_idle"
    /\ InitCall
    /\ cli = NoCli

CallSetupVsEnvironment ==
    /\ pc = "setup_idle"
    /\ \E o \in Outcomes :
          CallSetup(SetupVsEnvironment(host, environ, tmpFiles, calls.setup_vs + 1, o), o)
    /\ pc' = "setup_returned"
    /\ UNCHANGED <<host, args, srcTree, order, dirs, outFiles, error, modules,
                   built, compat,
                   message, ext_modules, buildTemp, diagnosis, cli>>

NextSetup == CallSetupVsEnvironment

SpecSetup == InitSetup /\ [][NextSetup]_vars

(***************************************************************************)
(* _windows_gcc_compatibility on its own, over every triple and host.      *)
(***************************************************************************)
InitGcc ==
    /\ host \in [platform : {"win", "linux"}, py_is_64 : BOOLEAN,
                 triple : SUBSET TripleMarkers, dumpmachine_fails : BOOLEAN,
                 installed : {{}}, vcvars : {{}}, vswhere : {<<>>},
                 include_exists : {TRUE}, libdir_exists : {TRUE},
                 lib_listing : {<<"python312.lib">>}, locked : {{}}]
    /\ environ \in [PATH : SUBSET {"gccbin", "msvcbin"}, CC : {Unset}, CXX : {Unset},
                    INCLUDE : {Unset}]
    /\ args = DefaultArgs([kind |-> "file", path |-> << <<"mod", "py">> >>])
    /\ srcTree = {<< <<"mod", "py">> >>}
    /\ order \in Orderings(srcTree)
    /\ pc = "gcc_idle"
    /\ InitCall
    /\ cli = NoCli

CallWindowsGccCompatibility ==
    /\ pc = "gcc_idle"
    /\ compat' = [called |-> TRUE] @@ WindowsGccCompatibility(host, environ)
    /\ pc' = "gcc_returned"
    /\ UNCHANGED <<host, args, srcTree, order, environ, dirs, tmpFiles, outFiles,
                   error, modules, built, calls, vs,
                   message, ext_modules, buildTemp, diagnosis, cli>>

NextGcc == CallWindowsGccCompatibility

SpecGcc == InitGcc /\ [][NextGcc]_vars

(***************************************************************************)
(* The two cleaners on their own, over small directories with files that   *)
(* cannot be deleted.                                                      *)
(***************************************************************************)
FileAC == << <<"a", "c">> >>

FileAHtml == << <<"a", "html">> >>

FileSubBC == << <<"sub">>, <<"b", "c">> >>

CleanCandidates == {FileA, FileAC, FileAHtml, FileSubBC, FileStyleCss}

TempCandidates == {TempFile(<<"a">>, "obj"), TempFile(<<"a">>, "lib"), TempFile(<<"a">>, "o")}

InitClean ==
    /\ \E locked \in SUBSET {FileAC, FileAHtml, TempFile(<<"a">>, "obj")} :
          host = [DefaultHost EXCEPT !.locked = locked]
    /\ environ = DefaultEnviron
    /\ \E inp \in {[kind |-> "dir", path |-> << <<"proj">> >>],
                    [kind |-> "file", path |-> << <<"a", "py">> >>]} :
          args \in [input : {inp}, use_mingw : {FALSE}, cleanup : {TRUE},
                    keep_c_files : BOOLEAN, annotate : BOOLEAN, temp : {TRUE}]
    /\ srcTree \in {t \in SUBSET CleanCandidates : Cardinality(t) <= MaxFiles}
    /\ order = CHOOSE o \in Orderings(srcTree) : TRUE
    /\ pc = "clean_idle"
    /\ NothingRun
    /\ cli = NoCli
    /\ \E d \in {{}, {"temp"}} :
          /\ dirs = d
          /\ buildTemp \in (IF d = {} THEN {{}} ELSE SUBSET TempCandidates)

CallCleanupIntermediateFiles ==
    /\ pc = "clean_idle"
    /\ CleanupIntermediateFiles(args.input, srcTree, args.keep_c_files, args.annotate,
                                host.locked, srcTree')
    /\ pc' = "cleaned_src"
    /\ UNCHANGED <<host, args, order, environ, dirs, tmpFiles, outFiles, error,
                   modules, built, calls, vs, compat,
                   message, ext_modules, buildTemp, diagnosis, cli>>

CallCleanupBuildTempFiles ==
    /\ pc = "cleaned_src"
    /\ CleanupBuildTempFiles("temp" \in dirs, buildTemp, host.locked, buildTemp')
    /\ pc' = "cleaned"
    /\ UNCHANGED <<host, args, srcTree, order, environ, dirs, tmpFiles, outFiles,
                   error, modules, built, calls, vs, compat,
                   message, ext_modules, diagnosis, cli>>

NextClean ==
    \/ CallCleanupIntermediateFiles
    \/ CallCleanupBuildTempFiles

SpecClean == InitClean /\ [][NextClean]_vars

(***************************************************************************)
(* _diagnose_vs_build_tools on its own, over every set of installations    *)
(* and every answer of the locator.                                        *)
(***************************************************************************)
\* the number of places where the locator is looked for: possible_vswhere
VswhereLocations == 3

\* the installation directories of the model: two at well-known paths and
\* one elsewhere, which only the locator can report
Installations == {"VS2022BuildTools", "VS2019BuildTools", "VSCustom"}

\* what one run of the locator may print: nothing, or the path of an
\* installation, spelled as the fixed list spells it or differently (other
\* letter case, a trailing separator)
VswhereAnswers(installed) ==
    {NoAnswer} \cup [inst : installed, form : {"canon", "alt"}]

InitDiagnose ==
    /\ \E installed \in SUBSET Installations : \E vcvars \in SUBSET installed :
       \E answers \in [1..VswhereLocations -> VswhereAnswers(installed)] :
          host = [DefaultHost EXCEPT !.installed = installed, !.vcvars = vcvars,
                                     !.vswhere = answers]
    /\ environ = DefaultEnviron
    /\ args = DefaultArgs([kind |-> "file", path |-> << <<"mod", "py">> >>])
    /\ srcTree = {<< <<"mod", "py">> >>}
    /\ order \in Orderings(srcTree)
    /\ pc = "diagnose_idle"
    /\ InitCall
    /\ cli = NoCli

CallDiagnoseVsBuildTools ==
    /\ pc = "diagnose_idle"
    /\ diagnosis' = [called |-> TRUE] @@ DiagnoseVsBuildTools(host, environ)
    /\ pc' = "diagnose_returned"
    /\ UNCHANGED <<host, args, srcTree, order, environ, dirs, tmpFiles, outFiles,
                   error, modules, built, calls, vs, compat,
                   message, ext_modules, buildTemp, cli>>

NextDiagnose == CallDiagnoseVsBuildTools

SpecDiagnose == InitDiagnose /\ [][NextDiagnose]_vars

(***************************************************************************)
(* Properties.                                                             *)
(***************************************************************************)
OnWindows == host.platform = "win"

Names(mods) == {mods[i].name : i \in 1..Len(mods)}

\* C1: on Windows with use_mingw and no gcc on the search path the build
\* never reaches the native build step, and when it fails with
\* CompilerUnavailable the code generator has not been invoked before.
C1_MinGWMissingFailsBeforeCodegen ==
    (OnWindows /\ args.use_mingw /\ ~Which("gcc", environ))
        => /\ pc \notin {"run_build", "collect", "cleanup", "done"}
           /\ (pc = "raised" /\ error = "CompilerUnavailable") => calls.cythonize = 0

\* C2: within one convert invocation _setup_vs_environment is called at
\* most once.
C2_SetupCalledAtMostOnce == calls.setup_vs <= 1

\* C3 as stated: a step changes the environment table only if it is a call
\* of _setup_vs_environment.
C3_OnlyConfiguratorWritesEnviron ==
    [][environ' # environ => calls'.setup_vs > calls.setup_vs]_vars

\* C3 as amended: a step changes the environment table only if it is a call
\* of _setup_vs_environment, or it is the compiler selection of the Build
\* Orchestrator on the Windows MinGW path with gcc on the search path, which
\* sets CC to gcc and CXX to g++ where they are unset and changes nothing else.
C3_EnvironWrittenByConfiguratorOrMinGWDefaults ==
    [][environ' # environ =>
         \/ calls'.setup_vs > calls.setup_vs
         \/ /\ pc = "select_compiler"
            /\ OnWindows /\ args.use_mingw /\ Which("gcc", environ)
            /\ environ'.PATH = environ.PATH
            /\ environ'.INCLUDE = environ.INCLUDE
            /\ environ'.CC = (IF environ.CC = Unset THEN "gcc" ELSE environ.CC)
            /\ environ'.CXX = (IF environ.CXX = Unset THEN "g++" ELSE environ.CXX)]_vars

\* the compiler selection has set CXX, and left a CC that was already set
C3_Witness ==
    /\ pc = "run_build"
    /\ args.use_mingw
    /\ calls.setup_vs = 0
    /\ environ.CXX = "g++"
    /\ environ.CC = "clang"

\* C4: after _setup_vs_environment has returned, no scratch file the call
\* created is left in the temp directory.
C4_NoScratchFileLeft == vs.called => vs.created \cap tmpFiles = {}

\* C5: _setup_vs_environment returns false whenever the driver script timed
\* out, exited with a non-zero status or left no captured-environment file.
C5_FalseWhenScriptFails ==
    (vs.called /\ vs.ran
        /\ (vs.o.timeout \/ vs.o.returncode # 0 \/ ~vs.o.dump_written))
        => ~vs.ret

\* C6: _setup_vs_environment returns true only if the captured environment
\* has been merged and cl is resolvable on the search path afterwards.
C6_TrueOnlyIfClResolvable ==
    (vs.called /\ vs.ret) => (vs.merged /\ Which("cl", environ))

\* the script ran and its environment was merged, yet cl is not resolvable
C6_Witness ==
    /\ vs.called /\ vs.ran /\ vs.merged
    /\ ~vs.o.timeout /\ vs.o.returncode = 0
    /\ ~Which("cl", environ)
    /\ ~vs.ret

\* C7: once the artifacts are collected without an error, every path of the
\* result is on disk and is the expected path of a compile unit, and the
\* result holds exactly the units whose expected path is on disk.
C7_ResultHoldsExistingArtifacts ==
    pc \in {"cleanup", "done"} =>
        /\ error = "none"
        /\ \A i \in 1..Len(built) :
              /\ \E f \in outFiles : built[i] = Resolve(f)
              /\ \E j \in 1..Len(modules) :
                    built[i] = Resolve(ExpectedArtifact(modules[j].name))
        /\ \A j \in 1..Len(modules) :
              InSeq(Resolve(ExpectedArtifact(modules[j].name)), built)
                 <=> ExpectedArtifact(modules[j].name) \in outFiles

\* one unit's artifact is on disk and reported, another's is absent and dropped
C7_Witness ==
    /\ pc = "done"
    /\ error = "none"
    /\ Len(built) = 1
    /\ Len(modules) = 2

\* C8: for a directory with a package marker every module name starts with
\* the directory's name and no two descriptors have the same name.
C8_PackageNamesRootedAndUnique ==
    (pc = "discovered" /\ args.input.kind = "dir" /\ InitPy \in srcTree) =>
        /\ \A i \in 1..Len(modules) : <<Head(modules[i].name)>> = Last(args.input.path)
        /\ \A i, j \in 1..Len(modules) :
              modules[i].name = modules[j].name => i = j

\* C9: for a directory without a package marker the discovered files are the
\* source files of the tree, the name of each with the extension put back is
\* its path relative to the input directory joined by dots, and the files
\* a and sub/b are named a and sub.b.
C9_PlainNamesAreRelativePaths ==
    (pc = "discovered" /\ args.input.kind = "dir" /\ InitPy \notin srcTree) =>
        /\ error = "none"
        /\ {modules[i].path : i \in 1..Len(modules)}
              = {Resolve(args.input.path \o f) : f \in {g \in srcTree : HasSuffix(g, "py")}}
        /\ \A i \in 1..Len(modules) :
              \E f \in srcTree :
                 /\ modules[i].path = Resolve(args.input.path \o f)
                 /\ modules[i].name \o <<"py">> = Flatten(f)
        /\ srcTree = {FileA, FileSubB} => Names(modules) = {<<"a">>, <<"sub", "b">>}

\* the two files a and sub/b of the scenario have been discovered
C9_Witness ==
    /\ pc = "discovered"
    /\ srcTree = {FileA, FileSubB}
    /\ Len(modules) = 2

\* the classification of a triple, stated without the order of the tests
Targets64(triple) == triple \cap {"x86_64", "x64", "amd64"} # {}

Targets32(triple) == ~Targets64(triple) /\ triple \cap {"i686", "i386", "i586"} # {}

\* C10: on Windows the check answers compatible exactly when gcc is on the
\* search path, the triple query worked, the triple is classified 64-bit on a
\* 64-bit interpreter or 32-bit on a 32-bit one, and the triple has the
\* mingw marker; every other answer is incompatible and carries a reason.
C10_CompatibleIffMatchingMinGW ==
    (compat.called /\ OnWindows) =>
        /\ compat.compatible <=>
              /\ Which("gcc", environ)
              /\ ~host.dumpmachine_fails
              /\ \/ host.py_is_64 /\ Targets64(host.triple)
                 \/ ~host.py_is_64 /\ Targets32(host.triple)
              /\ "mingw" \in host.triple
        /\ ~compat.compatible => compat.reason # ""

\* a 32-bit MinGW gcc on a 32-bit interpreter has been found compatible
C10_Witness ==
    /\ compat.called /\ OnWindows
    /\ ~host.py_is_64
    /\ host.triple = {"i686", "mingw"}
    /\ compat.compatible

\* the files that were in the source tree when the call began: the directory
\* listing taken then
InitialTree == {order[i] : i \in 1..Len(order)}

\* C11: after a successful convert of a single source file with cleanup on
\* and keep_c_files off, no generated .c file is left in the source file's
\* directory and the source file itself is still there.
C11_SingleFileCleanupRemovesGeneratedC ==
    (pc = "done" /\ error = "none" /\ args.input.kind = "file"
        /\ args.cleanup /\ ~args.keep_c_files) =>
        /\ \A f \in srcTree : ~HasSuffix(f, "c")
        /\ args.input.path \in srcTree

\* C12: cleanup never removes a file that was in the source tree before
\* convert was called.
C12_CleanupKeepsFilesFromBefore == InitialTree \subseteq srcTree

\* the include directory or the library directory is missing, or no file in
\* the library directory is an import library of the interpreter
DevFilesMissing ==
    \/ ~host.include_exists
    \/ ~host.libdir_exists
    \/ ~\E i \in 1..Len(host.lib_listing) :
            EndsWithLib(host.lib_listing[i]) /\ StartsWithPython(host.lib_listing[i])

\* _build_extensions has got past its check of the development files
DevFilesChecked ==
    /\ pc \notin {"idle", "discover", "msvc_setup", "check_libraries"}
    /\ error \notin {"NotFound", "InvalidInput", "NoModulesFound", "CythonMissing"}

\* C13: when the development files are missing, the build ends at its check
\* with EnvironmentError, the message names the include and the library
\* directory, and the code generator, the compiler selection and the native
\* build step have not run: no compile unit was made, nothing was written.
C13_MissingDevFilesFailBeforeCodegen ==
    (DevFilesMissing /\ DevFilesChecked) =>
        /\ pc = "raised"
        /\ error = "EnvironmentError"
        /\ message.dirs = {"include_dir", "library_dir"}
        /\ calls.cythonize = 0
        /\ calls.build_ext = 0
        /\ ext_modules = <<>>
        /\ ~compat.called
        /\ srcTree = InitialTree
        /\ outFiles = {}

\* the library directory holds an import library, but not the interpreter's
C13_Witness ==
    /\ pc = "raised"
    /\ error = "EnvironmentError"
    /\ host.lib_listing = <<"foo.lib">>
    /\ message = DevFilesMessage

\* the call is on the MSVC path: Windows, MinGW not asked for
MsvcPath == host.platform = "win" /\ ~args.use_mingw

\* C14: on the Windows MSVC path, (1) while cl is resolvable no step of the
\* call attempts an activation or changes the environment; (2) when the
\* activation attempted by the build returns False the build raises
\* CompilerUnavailable at once; and (3) whenever that error has been raised
\* the native build step has not run and the message lists the setup script
\* of every installation that has one.
C14_MsvcResolvableOrUnavailable ==
    /\ [][(MsvcPath /\ Which("cl", environ)) =>
             /\ environ' = environ
             /\ calls'.setup_vs = calls.setup_vs
             /\ tmpFiles' = tmpFiles]_vars
    /\ [][(MsvcPath /\ pc = "select_compiler" /\ pc' # pc) =>
             IF Which("cl", environ) THEN pc' = "run_build"
             ELSE /\ calls'.setup_vs = calls.setup_vs + 1
                  /\ IF vs'.ret THEN pc' = "run_build"
                     ELSE pc' = "raised" /\ error' = "CompilerUnavailable"]_vars
    /\ [](MsvcPath /\ error = "CompilerUnavailable" =>
             /\ calls.build_ext = 0
             /\ outFiles = {}
             /\ vs.called /\ ~vs.ret
             /\ \A i \in 1..Len(SearchPaths) :
                   VcvarsExists(host, SearchPaths[i]) =>
                       InSeq(SearchPaths[i], message.commands))

\* two installations have a setup script, activation failed, both are listed
C14_Witness ==
    /\ MsvcPath
    /\ error = "CompilerUnavailable"
    /\ Len(message.commands) = 2
    /\ calls.setup_vs = 2

\* the command line asked for diagnostics only: --diagnose, or no input path
DiagnosticsOnly == cli.diagnose \/ ~cli.input_given

\* C15: once the command-line entry point has returned, its exit code is 0
\* exactly when convert returned without an error or only diagnostics were
\* run, and it is 2 whenever convert raised; with diagnostics only, convert
\* was not called and nothing was built; convert is called at most once.
C15_ExitCodeZeroIffSuccessOrDiagnostics ==
    /\ calls.convert <= 1
    /\ cli.exited =>
          /\ cli.exit_code \in {0, 2}
          /\ cli.exit_code = 0 <=>
                \/ DiagnosticsOnly /\ cli.diagnosed
                \/ ~DiagnosticsOnly /\ calls.convert = 1 /\ error = "none"
          /\ error \in {"NotFound", "InvalidInput", "NoModulesFound", "EnvironmentError",
                        "CompilerUnavailable", "BuildFailed"} => cli.exit_code = 2
          /\ DiagnosticsOnly =>
                /\ calls.convert = 0
                /\ calls.cythonize = 0
                /\ calls.build_ext = 0
                /\ dirs = {}
                /\ srcTree = InitialTree

\* the native build failed and the command line has returned 2
C15_Witness ==
    /\ cli.exited
    /\ error = "BuildFailed"
    /\ cli.exit_code = 2
    /\ calls.convert = 1

\* a file of the source tree that the source-tree cleaner is to remove
IntermediateFile(f) ==
    \/ ~args.keep_c_files /\ HasSuffix(f, "c")
    \/ ~args.annotate /\ (HasSuffix(f, "html") \/ HasSuffix(f, "css"))

\* a file of the build-temp directory that the temp cleaner is to remove
TempByproduct(f) ==
    \E e \in {"obj", "exp", "lib", "pdb", "res"} : HasSuffix(f, e)

\* C16: a call of either cleaner ends without an error and removes every
\* matching file that can be deleted, whatever other matching files cannot;
\* the temp cleaner changes nothing when the directory does not exist.  (The
\* source-tree cleaner is taken on a directory: on a single file it finds no
\* file at all.)
C16_CleanersAreBestEffort ==
    /\ [][(pc = "clean_idle" /\ pc' = "cleaned_src") =>
             /\ error' = "none"
             /\ srcTree' \subseteq srcTree
             /\ buildTemp' = buildTemp
             /\ \A f \in srcTree :
                   (args.input.kind = "dir" /\ IntermediateFile(f)
                        /\ f \notin host.locked) => f \notin srcTree']_vars
    /\ [][(pc = "cleaned_src" /\ pc' = "cleaned") =>
             /\ error' = "none"
             /\ srcTree' = srcTree
             /\ dirs' = dirs
             /\ buildTemp' \subseteq buildTemp
             /\ "temp" \notin dirs => buildTemp' = buildTemp
             /\ \A f \in buildTemp :
                   (TempByproduct(f) /\ f \notin host.locked) => f \notin buildTemp']_vars

\* both cleaners met a file they could not delete and removed another one
C16_Witness ==
    /\ pc = "cleaned"
    /\ error = "none"
    /\ \E f \in srcTree \cap host.locked : IntermediateFile(f)
    /\ \E g \in InitialTree \ srcTree : IntermediateFile(g)
    /\ TempFile(<<"a">>, "obj") \in buildTemp \cap host.locked
    /\ TempFile(<<"a">>, "lib") \notin buildTemp
    /\ TempFile(<<"a">>, "o") \in buildTemp

\* no two entries of a list of paths name the same directory
NoTwoResolveTheSame(paths) ==
    \A i, j \in 1..Len(paths) : paths[i].inst = paths[j].inst => i = j

\* C17: in the result of the detector neither the list of installations nor
\* the list of environment-setup scripts holds two entries that resolve to
\* the same path.
C17_DetectorListsHaveNoDuplicates ==
    diagnosis.called =>
        /\ NoTwoResolveTheSame(diagnosis.vs_installations)
        /\ NoTwoResolveTheSame(diagnosis.vcvars_paths)

\* the import libraries of the interpreter in the library directory, in the
\* order of the listing
PythonLibs ==
    SelectSeq(host.lib_listing, LAMBDA f : EndsWithLib(f) /\ StartsWithPython(f))

\* C18: when the expected library file is not in the library directory but
\* another library of the interpreter is, the check of the development files
\* passes and every compile unit is given that library, its suffix stripped.
C18_FallbackLibraryIsLinked ==
    (/\ host.include_exists
     /\ host.libdir_exists
     /\ ~InSeq(ExpectedLibrary(host), host.lib_listing)
     /\ PythonLibs # <<>>) =>
        /\ error # "EnvironmentError"
        /\ \A i \in 1..Len(ext_modules) :
              ext_modules[i].libraries = <<StripLib(Head(PythonLibs))>>

\* C19: the native build step runs at most once in a call; the step in which
\* it fails removes nothing; and once it has failed the call has ended with
\* that error, the cleaner has not run, nothing was collected, and the
\* generated files, the source files and what the build left in the output
\* and temp directories stay where they are.
C19_BuildFailureIsTerminal ==
    /\ [](calls.build_ext <= 1)
    /\ [](error = "BuildFailed" =>
             /\ pc = "raised"
             /\ calls.build_ext = 1
             /\ calls.cleanup = 0
             /\ built = <<>>
             /\ InitialTree \subseteq srcTree
             /\ GeneratedFiles(args.input, modules, "c") \subseteq srcTree)
    /\ [][error' = "BuildFailed" =>
             /\ srcTree \subseteq srcTree'
             /\ outFiles \subseteq outFiles'
             /\ buildTemp \subseteq buildTemp'
             /\ dirs' = dirs]_vars

\* the build failed after it had compiled and linked one unit
C19_Witness ==
    /\ error = "BuildFailed"
    /\ pc = "raised"
    /\ outFiles # {}
    /\ buildTemp # {}
    /\ args.cleanup
    /\ args.temp
    /\ \E f \in srcTree : HasSuffix(f, "c")

\* nothing but the directories has changed on disk or in the environment
OnlyDirsMayHaveChanged ==
    /\ srcTree = InitialTree
    /\ outFiles = {}
    /\ buildTemp = {}
    /\ tmpFiles = {}
    /\ calls.setup_vs = 0
    /\ calls.cythonize = 0

\* C20, as claimed: a call that fails with NotFound, InvalidInput or
\* NoModulesFound has changed nothing on disk; neither the output directory
\* nor the build-temp directory has been made.
C20_DiscoveryFailureLeavesNoTrace ==
    error \in {"NotFound", "InvalidInput", "NoModulesFound"} =>
        /\ dirs = {}
        /\ OnlyDirsMayHaveChanged

\* C20, amended: a call that fails with NotFound has changed nothing on
\* disk; one that fails with InvalidInput or NoModulesFound has made the
\* output directory, and the build-temp directory when one was given, and
\* has changed nothing else.
C20_DiscoveryFailureLeavesOnlyDirs ==
    /\ error = "NotFound" => dirs = {} /\ OnlyDirsMayHaveChanged
    /\ error \in {"InvalidInput", "NoModulesFound"} =>
          /\ "out" \in dirs
          /\ "temp" \in dirs <=> args.temp
          /\ OnlyDirsMayHaveChanged

\* a directory without source files, a build-temp directory given
C20_Witness ==
    /\ pc = "raised"
    /\ error = "NoModulesFound"
    /\ args.temp
    /\ dirs = {"out", "temp"}

====
